---- MODULE Spec2Model ----
(***************************************************************************)
(* logaround.py: fetch the journal as text, parse every line into a        *)
(* record (timestamp, host, unit, message), keep the records whose message *)
(* contains all the terms, add +-delta rows of context, print a table.     *)
(*                                                                         *)
(* A Python str is modelled as a sequence of one-character strings, so     *)
(* that splitlines, strip, re.match and str.contains are computed          *)
(* character by character.  Opaque strings (time expressions, argv words)  *)
(* stay TLA+ strings.                                                      *)
(***************************************************************************)
EXTENDS Integers, Sequences, FiniteSets, TLC

VARIABLES pc, args, since, until, cmd, returncode, output, df, filtered,
          printed, raised, exit, calls

vars == <<pc, args, since, until, cmd, returncode, output, df, filtered,
          printed, raised, exit, calls>>

None == "None"

(***************************************************************************)
(* Character classes of Python's re and str, over the ASCII characters.    *)
(***************************************************************************)
LowerSeq == <<"a","b","c","d","e","f","g","h","i","j","k","l","m",
              "n","o","p","q","r","s","t","u","v","w","x","y","z">>
UpperSeq == <<"A","B","C","D","E","F","G","H","I","J","K","L","M",
              "N","O","P","Q","R","S","T","U","V","W","X","Y","Z">>
Letters == {LowerSeq[i] : i \in DOMAIN LowerSeq} \cup {UpperSeq[i] : i \in DOMAIN UpperSeq}
Digits == {"0","1","2","3","4","5","6","7","8","9"}
\* str.isspace / \s
WhiteSpace == {" ", "\t", "\n", "\r", "\f"}
\* the line boundaries of str.splitlines
LineBoundary == {"\n", "\r", "\f"}

IsWord(c) == c \in Letters \cup Digits \cup {"_"}
IsDigit(c) == c \in Digits
IsBlank(c) == c = " "
IsNonSpace(c) == c \notin WhiteSpace
\* the unit class written [^\[]+ : a colon is taken for a part of the unit
IsUnitCharColonAllowed(c) == c # "["
IsUnitChar(c) == c \notin {":", "["}
IsColon(c) == c = ":"
IsOpen(c) == c = "["
IsClose(c) == c = "]"
IsDot(c) == c # "\n"

\* str.lower on one character (re.IGNORECASE compares case-folded characters)
Lower(c) ==
    IF \E i \in DOMAIN UpperSeq : UpperSeq[i] = c
    THEN LowerSeq[CHOOSE i \in DOMAIN UpperSeq : UpperSeq[i] = c]
    ELSE c

(***************************************************************************)
(* str.strip and str.splitlines                                            *)
(***************************************************************************)
RECURSIVE lstrip(_)
lstrip(s) == IF s # <<>> /\ Head(s) \in WhiteSpace THEN lstrip(Tail(s)) ELSE s

RECURSIVE rstrip(_)
rstrip(s) ==
    IF s # <<>> /\ s[Len(s)] \in WhiteSpace THEN rstrip(SubSeq(s, 1, Len(s) - 1)) ELSE s

strip(s) == rstrip(lstrip(s))

\* splitlines(text): i is the next character, cur the line being collected.
\* A boundary ends the line ("\r\n" counts as one boundary); what is left
\* after the last boundary is a line only if it is not empty.
RECURSIVE splitlines_from(_, _, _)
splitlines_from(text, i, cur) ==
    IF i > Len(text) THEN (IF cur = <<>> THEN <<>> ELSE <<cur>>)
    ELSE IF text[i] \in LineBoundary
         THEN LET eol == IF text[i] = "\r" /\ i < Len(text) /\ text[i + 1] = "\n"
                         THEN i + 2 ELSE i + 1
              IN  <<cur>> \o splitlines_from(text, eol, <<>>)
         ELSE splitlines_from(text, i + 1, Append(cur, text[i]))

splitlines(text) == splitlines_from(text, 1, <<>>)

(***************************************************************************)
(* re.match(regex, line), line 65.  A position p is the index of the next  *)
(* character to read; each piece of the pattern maps the set of positions  *)
(* before it to the set of positions after it.                             *)
(***************************************************************************)
\* the character classes of the pattern, by the way each is written in it
InClass(C, c) ==
    CASE C = "\\w" -> IsWord(c)
      [] C = "\\d" -> IsDigit(c)
      [] C = " " -> IsBlank(c)
      [] C = "\\S" -> IsNonSpace(c)
      [] C = "[^:\\[]" -> IsUnitChar(c)
      [] C = ":" -> IsColon(c)
      [] C = "\\[" -> IsOpen(c)
      [] C = "\\]" -> IsClose(c)
      [] C = "." -> IsDot(c)
\* one character of class C
One(s, P, C) == {p + 1 : p \in {q \in P : q <= Len(s) /\ InClass(C, s[q])}}
\* C+ : one or more characters of class C
Plus(s, P, C) ==
    {q \in 2..(Len(s) + 1) : \E p \in P : p < q /\ \A k \in p..(q - 1) : InClass(C, s[k])}
\* C* : zero or more
Star(s, P, C) == P \cup Plus(s, P, C)

\* \w{3} +\d{1,2} +\d{2}:\d{2}:\d{2}
TimestampEnds(s, P) ==
    LET w3  == One(s, One(s, One(s, P, "\\w"), "\\w"), "\\w")
        sp1 == Plus(s, w3, " ")
        d1  == One(s, sp1, "\\d")
        day == d1 \cup One(s, d1, "\\d")
        sp2 == Plus(s, day, " ")
        hh  == One(s, One(s, sp2, "\\d"), "\\d")
        mm  == One(s, One(s, One(s, hh, ":"), "\\d"), "\\d")
    IN  One(s, One(s, One(s, mm, ":"), "\\d"), "\\d")

\* \S+
HostEnds(s, P) == Plus(s, P, "\\S")

\* [^:\[]+
UnitEnds(s, P) == Plus(s, P, "[^:\\[]")

\* (?:\[\d+\])?
PidEnds(s, P) == P \cup One(s, Plus(s, One(s, P, "\\["), "\\d"), "\\]")

\* .*  (greedy: up to the end of the line or the next "\n")
MessageEnd(s, p) ==
    LET E == Star(s, {p}, ".")
    IN  CHOOSE e \in E : \A f \in E : f <= e

\* every way the pattern matches at the start of s, as
\* <<end of timestamp, end of host, end of unit, start of message>>
Parses(s) ==
    UNION { UNION { UNION { { <<p1, p2, p3, p4>> :
                              p4 \in One(s, One(s, PidEnds(s, {p3}), ":"), " ") } :
                            p3 \in UnitEnds(s, One(s, {p2}, " ")) } :
                    p2 \in HostEnds(s, One(s, {p1}, " ")) } :
            p1 \in TimestampEnds(s, {1}) }

\* greedy quantifiers: the match re returns takes the longest piece first
Longer(t, u) ==
    \/ t[1] > u[1]
    \/ t[1] = u[1] /\ t[2] > u[2]
    \/ t[1] = u[1] /\ t[2] = u[2] /\ t[3] > u[3]
    \/ t[1] = u[1] /\ t[2] = u[2] /\ t[3] = u[3] /\ t[4] >= u[4]

\* re.match(regex, line): no match, or the match with its groupdict
re_match(line) ==
    LET M == Parses(line)
    IN  IF M = {} THEN [matched |-> FALSE]
        ELSE LET t == CHOOSE t \in M : \A u \in M : Longer(t, u)
             IN  [matched   |-> TRUE,
                  groupdict |->
                     [timestamp |-> SubSeq(line, 1, t[1] - 1),
                      host      |-> SubSeq(line, t[1] + 1, t[2] - 1),
                      unit      |-> SubSeq(line, t[2] + 1, t[3] - 1),
                      message   |-> SubSeq(line, t[4], MessageEnd(line, t[4]) - 1)]]

\* lines 68-79: one row per line, every field stripped
parse_line(line) ==
    LET match == re_match(line)
        data  == IF match.matched THEN match.groupdict
                 ELSE [timestamp |-> <<>>, host |-> <<>>, unit |-> <<>>, message |-> line]
    IN  [k \in DOMAIN data |-> strip(data[k])]

\* lines 58-80: the DataFrame is the sequence of its rows; built from no
\* rows it has no columns at all
parse_journalctl_output(text) ==
    LET lines == splitlines(text)
    IN  [i \in 1..Len(lines) |-> parse_line(lines[i])]

(***************************************************************************)
(* df['message'].str.contains(term, case=False, na=False), line 102.       *)
(* regex defaults to True: pandas compiles the term with re.IGNORECASE and *)
(* keeps the rows where pattern.search(message) finds a match.  The terms  *)
(* of the model are written with ordinary characters, ".", "*", "[" and    *)
(* "(" ; they hold no "]" and no ")", so a set or a group is never closed. *)
(***************************************************************************)
\* re.compile(term): the atoms of the pattern, or error (re.error):
\* "[" unterminated character set, "(" unterminated subpattern,
\* "*" with nothing before it or after another "*"
RECURSIVE re_compile_from(_, _, _)
re_compile_from(term, i, atoms) ==
    IF i > Len(term) THEN [error |-> FALSE, atoms |-> atoms]
    ELSE IF term[i] \in {"[", "("} THEN [error |-> TRUE, atoms |-> <<>>]
    ELSE IF term[i] = "*"
         THEN IF atoms = <<>> \/ atoms[Len(atoms)].star
              THEN [error |-> TRUE, atoms |-> <<>>]
              ELSE re_compile_from(term, i + 1,
                       [atoms EXCEPT ![Len(atoms)].star = TRUE])
    ELSE re_compile_from(term, i + 1,
             Append(atoms, [any |-> term[i] = ".", ch |-> term[i], star |-> FALSE]))

re_compile(term) == re_compile_from(term, 1, <<>>)

\* one atom against one character, case folded
AtomMatches(a, c) == IF a.any THEN IsDot(c) ELSE Lower(a.ch) = Lower(c)

\* the atoms from i on match s at position p
RECURSIVE MatchHere(_, _, _, _)
MatchHere(atoms, i, s, p) ==
    IF i > Len(atoms) THEN TRUE
    ELSE IF atoms[i].star
         THEN \/ MatchHere(atoms, i + 1, s, p)
              \/ p <= Len(s) /\ AtomMatches(atoms[i], s[p]) /\ MatchHere(atoms, i, s, p + 1)
         ELSE p <= Len(s) /\ AtomMatches(atoms[i], s[p]) /\ MatchHere(atoms, i + 1, s, p + 1)

\* pattern.search(s) is not None
re_search(atoms, s) == \E p \in 1..(Len(s) + 1) : MatchHere(atoms, 1, s, p)

\* line 102 written with = for &= : only the last term decides
mask_of_last_term(frame, terms, k) ==
    IF k = 0 THEN [i \in 1..Len(frame) |-> TRUE]
    ELSE [i \in 1..Len(frame) |-> re_search(re_compile(terms[k]).atoms, frame[i].message)]

\* the mask after the loop of lines 100-102 has run over terms[1..k]
RECURSIVE mask_after(_, _, _)
mask_after(frame, terms, k) ==
    IF k = 0 THEN [i \in 1..Len(frame) |-> TRUE]
    ELSE LET prev == mask_after(frame, terms, k - 1)
             pat  == re_compile(terms[k]).atoms
         IN  [i \in 1..Len(frame) |-> prev[i] /\ re_search(pat, frame[i].message)]

\* a set of integers as the ascending list sorted() returns
RECURSIVE sorted(_)
sorted(S) ==
    IF S = {} THEN <<>>
    ELSE LET m == CHOOSE x \in S : \A y \in S : x <= y
         IN  <<m>> \o sorted(S \ {m})

\* range(a, b)
range(a, b) == a..(b - 1)
max(a, b) == IF a >= b THEN a ELSE b
min(a, b) == IF a <= b THEN a ELSE b

\* df[mask].index.tolist(), line 103: the labels (0-based) of the kept rows
match_idxs_of(mask) == sorted({i - 1 : i \in {j \in DOMAIN mask : mask[j]}})

\* line 108 with the end of the range one short: idx + delta for idx + delta + 1
context_idxs_short(n, match_idxs, delta) ==
    sorted(UNION { range(max(0, match_idxs[k] - delta), min(n, match_idxs[k] + delta)) :
                   k \in DOMAIN match_idxs })

\* lines 106-109
context_idxs_of(n, match_idxs, delta) ==
    sorted(UNION { range(max(0, match_idxs[k] - delta), min(n, match_idxs[k] + delta + 1)) :
                   k \in DOMAIN match_idxs })

\* no terms taken for "nothing matches"
no_rows(frame) == <<>>

\* lines 98-99: no terms, the frame itself (every label, in order)
all_rows(frame) == [i \in 1..Len(frame) |-> i - 1]

\* search_logs(df, terms, delta), lines 92-110.  The result is the list of
\* the labels of the rows returned, or the exception raised: KeyError when
\* the frame has no 'message' column (it was built from no rows), re.error
\* when a term does not compile.
search_logs(frame, terms, delta) ==
    IF terms = <<>> THEN [raised |-> None, rows |-> all_rows(frame)]
    ELSE IF Len(frame) = 0 THEN [raised |-> "KeyError", rows |-> <<>>]
    ELSE IF \E k \in DOMAIN terms : re_compile(terms[k]).error
         THEN [raised |-> "re.error", rows |-> <<>>]
    ELSE LET mask       == mask_after(frame, terms, Len(terms))
             match_idxs == match_idxs_of(mask)
         IN  IF delta = 0 \/ match_idxs = <<>>
             THEN [raised |-> None, rows |-> match_idxs]
             ELSE [raised |-> None, rows |-> context_idxs_of(Len(frame), match_idxs, delta)]

(***************************************************************************)
(* The collaborators of main(): GNU date and journalctl.                   *)
(***************************************************************************)
Truthy(x) == x # None /\ x # ""

\* what `date -d timestr +%Y-%m-%d %H:%M:%S` prints when it accepts timestr
date_stdout(timestr) ==
    IF timestr = "yesterday" THEN "2024-07-28 00:00:00" ELSE "2024-07-29 10:00:00"

\* gnu_date_parse(timestr): the values it can return; date may reject the
\* expression or be missing, and then the result is None
gnu_date_parse(timestr) ==
    IF ~Truthy(timestr) THEN {None} ELSE {date_stdout(timestr), None}

\* the command line run_journalctl builds, lines 29-35
journalctl_cmd(s, u, n) ==
    <<"journalctl", "--no-pager", "-o", "short">>
        \o (IF Truthy(s) THEN <<"--since", s>> ELSE <<>>)
        \o (IF Truthy(u) THEN <<"--until", u>> ELSE <<>>)
        \o (IF n # 0 THEN <<"-n", ToString(n)>> ELSE <<>>)

\* the rows print_table adds before its loop ends, lines 120-129
shown_rows(labels, max_rows) ==
    IF labels = <<>> THEN <<>>
    ELSE IF max_rows <= 1 THEN SubSeq(labels, 1, 1)
    ELSE SubSeq(labels, 1, min(Len(labels), max_rows))

\* print_table(df, terms, max_rows): the Time, Unit and Message cells
print_table(frame, labels, max_rows) ==
    LET shown == shown_rows(labels, max_rows)
    IN  [kind |-> "table",
         rows |-> [k \in DOMAIN shown |->
                     <<frame[shown[k] + 1].timestamp, frame[shown[k] + 1].unit,
                       frame[shown[k] + 1].message>>]]

(***************************************************************************)
(* Inputs.  A text is a sequence of lines, each ended by "\n" as           *)
(* journalctl writes them.                                                 *)
(***************************************************************************)
MaxRecords == 3
MaxTerms == 2
MaxDelta == 2
MaxMainLines == 2
MaxMainTerms == 1
MaxTextLen == 4
DefaultLines == 500
DefaultMax == 100

RECURSIVE TextsOf(_, _)
TextsOf(pool, n) ==
    IF n = 0 THEN {<<>>}
    ELSE LET T == TextsOf(pool, n - 1)
         IN  T \cup {t \o l \o <<"\n">> : t \in T, l \in pool}

RECURSIVE SeqsUpTo(_, _)
SeqsUpTo(S, n) ==
    IF n = 0 THEN {<<>>}
    ELSE LET T == SeqsUpTo(S, n - 1)
         IN  T \cup {Append(t, x) : t \in T, x \in S}

\* messages and terms of the search: letters in both cases, a literal dot,
\* and terms that are regular expressions when not escaped
MsgPool == {<<"a","b">>, <<"B">>, <<"a",".","b">>}
TermPool == {<<"a">>, <<"B">>, <<"a",".">>, <<"a","*">>, <<"[">>}

SearchTexts == TextsOf(MsgPool, MaxRecords)
MainTexts == TextsOf(MsgPool, MaxMainLines)
SinceArgs == {None, "yesterday"}
UntilArgs == {None, "now"}
DeltaArgs == (0 - 1)..MaxDelta

ArgsOf(terms) ==
    [since : SinceArgs, until : UntilArgs, term : terms,
     lines : {DefaultLines}, max : {DefaultMax}, delta : DeltaArgs]

(***************************************************************************)
(* main(), lines 159-175, one action per statement.                        *)
(* An absent value (no CompletedProcess yet, no exit status yet) is the    *)
(* empty sequence, a present one the one-element sequence.                 *)
(***************************************************************************)
Init ==
    /\ pc = "normalize_since"
    /\ args \in ArgsOf(SeqsUpTo(TermPool, MaxMainTerms))
    /\ since = None /\ until = None
    /\ cmd = <<>> /\ returncode = <<>>
    /\ output = <<>> /\ df = <<>> /\ filtered = <<>>
    /\ printed = <<>> /\ raised = None /\ exit = <<>> /\ calls = <<>>

\* line 162
NormalizeSince ==
    /\ pc = "normalize_since"
    /\ IF Truthy(args.since)
       THEN /\ since' \in gnu_date_parse(args.since)
            /\ calls' = Append(calls, "gnu_date_parse")
       ELSE /\ since' = None
            /\ calls' = calls
    /\ pc' = "normalize_until"
    /\ UNCHANGED <<args, until, cmd, returncode, output, df, filtered, printed, raised, exit>>

\* line 163
NormalizeUntil ==
    /\ pc = "normalize_until"
    /\ IF Truthy(args.until)
       THEN /\ until' \in gnu_date_parse(args.until)
            /\ calls' = Append(calls, "gnu_date_parse")
       ELSE /\ until' = None
            /\ calls' = calls
    /\ pc' = "fetch"
    /\ UNCHANGED <<args, since, cmd, returncode, output, df, filtered, printed, raised, exit>>

\* run_journalctl without lines 37-39: a failed journalctl is not noticed
RunJournalctlIgnoresFailure ==
    /\ pc = "fetch"
    /\ cmd' = journalctl_cmd(since, until, args.lines)
    /\ calls' = Append(calls, "run_journalctl")
    /\ \E rc \in {0, 1}, stdout \in MainTexts :
          /\ returncode' = <<rc>>
          /\ output' = stdout
          /\ pc' = "parse"
          /\ UNCHANGED <<printed, raised, exit>>
    /\ UNCHANGED <<args, since, until, df, filtered>>

\* line 166 and run_journalctl, lines 25-40
RunJournalctl ==
    /\ pc = "fetch"
    /\ cmd' = journalctl_cmd(since, until, args.lines)
    /\ calls' = Append(calls, "run_journalctl")
    /\ \E rc \in {0, 1}, stdout \in MainTexts :
          /\ returncode' = <<rc>>
          /\ IF rc # 0
             THEN /\ printed' = Append(printed, [kind |-> "journalctl error", rows |-> <<>>])
                  /\ raised' = "SystemExit"
                  /\ exit' = <<1>>
                  /\ pc' = "done"
                  /\ output' = output
             ELSE /\ output' = stdout
                  /\ pc' = "parse"
                  /\ UNCHANGED <<printed, raised, exit>>
    /\ UNCHANGED <<args, since, until, df, filtered>>

\* line 167
Parse ==
    /\ pc = "parse"
    /\ df' = parse_journalctl_output(output)
    /\ calls' = Append(calls, "parse_journalctl_output")
    /\ pc' = "search"
    /\ UNCHANGED <<args, since, until, cmd, returncode, output, filtered, printed, raised, exit>>

\* line 170; an exception raised in search_logs is not caught: the
\* interpreter prints the traceback and exits with status 1
Search ==
    /\ pc = "search"
    /\ calls' = Append(calls, "search_logs")
    /\ LET r == search_logs(df, args.term, args.delta)
       IN  IF r.raised # None
           THEN /\ raised' = r.raised
                /\ exit' = <<1>>
                /\ pc' = "done"
                /\ filtered' = filtered
           ELSE /\ filtered' = r.rows
                /\ pc' = "report"
                /\ UNCHANGED <<raised, exit>>
    /\ UNCHANGED <<args, since, until, cmd, returncode, output, df, printed>>

\* lines 172-175
Report ==
    /\ pc = "report"
    /\ IF filtered = <<>>
       THEN /\ printed' = Append(printed, [kind |-> "No results found", rows |-> <<>>])
            /\ calls' = calls
       ELSE /\ printed' = Append(printed, print_table(df, filtered, args.max))
            /\ calls' = Append(calls, "print_table")
    /\ exit' = <<0>>
    /\ pc' = "done"
    /\ UNCHANGED <<args, since, until, cmd, returncode, output, df, filtered, raised>>

Next == NormalizeSince \/ NormalizeUntil \/ RunJournalctl \/ Parse \/ Search \/ Report

Spec == Init /\ [][Next]_vars

(***************************************************************************)
(* search_logs on its own: the frame parsed from a fetched text, every     *)
(* term list and every delta the option parser accepts.                    *)
(***************************************************************************)
Fetched(text, a) ==
    /\ pc = "parse"
    /\ args = a
    /\ since = None /\ until = None
    /\ cmd = journalctl_cmd(None, None, a.lines)
    /\ returncode = <<0>>
    /\ output = text
    /\ df = <<>> /\ filtered = <<>>
    /\ printed = <<>> /\ raised = None /\ exit = <<>>
    /\ calls = <<"run_journalctl">>

InitSearch ==
    \E text \in SearchTexts, a \in ArgsOf(SeqsUpTo(TermPool, MaxTerms)) :
        a.since = None /\ a.until = None /\ Fetched(text, a)

NextSearch == Parse \/ Search

SpecSearch == InitSearch /\ [][NextSearch]_vars

(***************************************************************************)
(* parse_journalctl_output on its own: texts of arbitrary characters       *)
(* (letters, blanks, "\n" and "\r"), and journal lines put together from   *)
(* a timestamp, a host, a unit, a pid, a separator and a message, well     *)
(* formed or not.                                                          *)
(***************************************************************************)
NoiseChars == {"a", " ", "\n", "\r"}
NoiseTexts == SeqsUpTo(NoiseChars, MaxTextLen)

TsJul29 == <<"J","u","l"," ","2","9"," ","1","0",":","0","0",":","0","1">>
TsJul9  == <<"J","u","l"," "," ","9"," ","1","0",":","0","0",":","0","1">>
TsXyz   == <<"X","y","z"," ","9","9"," ","9","9",":","9","9",":","9","9">>
TsIso   == <<"2","0","2","4","-","0","7","-","2","9","T","1","0",":","0","0",":","0","1">>
TsJuly  == <<"J","u","l","y"," ","2","9"," ","1","0",":","0","0",":","0","1">>
\* timestamps of the shape \w{3} +\d{1,2} +\d{2}:\d{2}:\d{2}, and others
ShapedTs == {TsJul29, TsJul9, TsXyz}
OtherTs == {TsIso, TsJuly}

HostPool == {<<"h">>}
UnitSshd == <<"s","s","h","d">>
UnitCron == <<" ","c","r","o","n">>
UnitColon == <<"m","y",":","u","n","i","t">>
UnitColonBlank == <<"m","y",":"," ","u","n","i","t">>
UnitPool == {UnitSshd, UnitCron, UnitColon, UnitColonBlank}
PidPool == {<<>>, <<"[","1","2","]">>, <<"[","x","]">>}
SepPool == {<<":"," ">>, <<":">>}
MessagePool == {<<"o","k">>, <<"e",":"," ","x">>, <<"a",":","b">>}

JournalParts ==
    [ts : ShapedTs \cup OtherTs, host : HostPool, unit : UnitPool,
     pid : PidPool, sep : SepPool, msg : MessagePool]

Compose(e) == e.ts \o <<" ">> \o e.host \o <<" ">> \o e.unit \o e.pid \o e.sep \o e.msg

JournalTexts == {Compose(e) \o <<"\n">> : e \in JournalParts}

InitParse ==
    \E text \in NoiseTexts \cup JournalTexts, a \in ArgsOf({<<>>}) :
        a.since = None /\ a.until = None /\ a.delta = 0 /\ Fetched(text, a)

NextParse == Parse

SpecParse == InitParse /\ [][NextParse]_vars

(***************************************************************************)
(* Properties                                                              *)
(***************************************************************************)
Range(f) == {f[i] : i \in DOMAIN f}
Ascending(f) == \A i, j \in DOMAIN f : i < j => f[i] < f[j]
RemoveAt(f, k) == SubSeq(f, 1, k - 1) \o SubSeq(f, k + 1, Len(f))
Parsed == pc # "parse" /\ "parse_journalctl_output" \in Range(calls)
SearchReturned == pc = "report"
SearchEnded == pc = "report" \/ (pc = "done" /\ "search_logs" \in Range(calls))
FallbackRecord(line) ==
    [timestamp |-> <<>>, host |-> <<>>, unit |-> <<>>, message |-> line]

\* the lines of a text in the sense of the specification: separated by
\* "\n" alone, the last one with or without its "\n"
RECURSIVE NewlineLinesFrom(_, _, _)
NewlineLinesFrom(text, i, cur) ==
    IF i > Len(text) THEN (IF cur = <<>> THEN <<>> ELSE <<cur>>)
    ELSE IF text[i] = "\n" THEN <<cur>> \o NewlineLinesFrom(text, i + 1, <<>>)
    ELSE NewlineLinesFrom(text, i + 1, Append(cur, text[i]))
NewlineLines(text) == NewlineLinesFrom(text, 1, <<>>)

\* t is a substring of s, letter case ignored, no character of t special
ContainsLiteral(s, t) ==
    \E p \in 1..(Len(s) - Len(t) + 1) :
        \A k \in 1..Len(t) : Lower(s[p + k - 1]) = Lower(t[k])

\* the labels of the rows whose message holds every term as a literal
LiteralMatches ==
    {i \in 0..(Len(df) - 1) :
        \A k \in DOMAIN args.term : ContainsLiteral(df[i + 1].message, args.term[k])}

\* the labels of the rows line 102 keeps, when every term compiles
Matches ==
    {i \in 0..(Len(df) - 1) :
        \A k \in DOMAIN args.term :
            re_search(re_compile(args.term[k]).atoms, df[i + 1].message)}

\* C1 (as claimed): a text of N lines separated by "\n" gives N records,
\* record i made from line i.
C1_OneRecordPerNewlineLine ==
    Parsed =>
        LET L == NewlineLines(output)
        IN  /\ Len(df) = Len(L)
            /\ \A i \in DOMAIN L : df[i] = parse_line(L[i])

\* C2 (as claimed): a line the pattern does not match gives the record
\* with the line verbatim in message and the other fields empty.
C2_FallbackIsVerbatim ==
    Parsed =>
        LET L == splitlines(output)
        IN  \A i \in DOMAIN L :
                ~re_match(L[i]).matched => df[i] = FallbackRecord(L[i])

\* C3 (as claimed): with delta = 0 and a frame with rows, search_logs
\* returns, without failing, exactly the rows whose message contains every
\* term as a literal substring, letter case ignored.
C3_TermsAreLiteral ==
    (SearchEnded /\ args.term # <<>> /\ args.delta = 0 /\ Len(df) > 0) =>
        /\ SearchReturned
        /\ filtered = sorted(LiteralMatches)

\* C4: for delta = R >= 0 and a non-empty term list, the labels returned
\* are exactly the labels within R of a matching label, clamped to
\* 0..N-1, each once, in strictly ascending order; the matches themselves
\* when R = 0.
C4_ContextExpansion ==
    (SearchReturned /\ args.term # <<>> /\ args.delta >= 0) =>
        /\ Range(filtered) =
              {j \in 0..(Len(df) - 1) :
                  \E i \in Matches : i - args.delta <= j /\ j <= i + args.delta}
        /\ Ascending(filtered)
        /\ args.delta = 0 => Range(filtered) = Matches

\* two windows that overlap, clamped at both ends of the frame
C4_Witness ==
    /\ SearchReturned /\ args.term # <<>> /\ args.delta = 1
    /\ Len(df) = 3 /\ Matches = {0, 2} /\ filtered = <<0, 1, 2>>

\* C5 (as claimed): with an empty text, or a text none of whose records
\* matches, whatever the terms and delta, the run raises nothing, finds
\* nothing to display, says "No results found" and exits with status 0.
\* (The no-match case is taken with terms that compile, so that only the
\* handling of emptiness is in question.)
C5_EmptyIsNotAnError ==
    (/\ pc = "done" /\ returncode = <<0>>
     /\ \/ output = <<>>
        \/ /\ args.term # <<>>
           /\ \A k \in DOMAIN args.term : ~re_compile(args.term[k]).error
           /\ Matches = {}) =>
        /\ raised = None
        /\ exit = <<0>>
        /\ filtered = <<>>
        /\ printed = <<[kind |-> "No results found", rows |-> <<>>]>>

\* C6: the calls of a run are made in the order gnu_date_parse (once for
\* each bound given), run_journalctl, parse_journalctl_output, search_logs,
\* print_table; a journalctl that returns non-zero ends the run with a
\* non-zero status before anything is parsed, searched or printed as a
\* table; a time expression that date rejects ends nothing and leaves the
\* journalctl command without that bound.
Rank(f) ==
    CASE f = "gnu_date_parse" -> 1
      [] f = "run_journalctl" -> 2
      [] f = "parse_journalctl_output" -> 3
      [] f = "search_logs" -> 4
      [] f = "print_table" -> 5
Given == {b \in {"since", "until"} : Truthy(args[b])}
C6_FetchFailureIsFatal ==
    /\ \A i, j \in DOMAIN calls :
          i < j => /\ Rank(calls[i]) <= Rank(calls[j])
                   /\ Rank(calls[i]) = Rank(calls[j]) => calls[i] = "gnu_date_parse"
    /\ \A i \in DOMAIN calls : Rank(calls[i]) > 2 => "run_journalctl" \in Range(calls)
    /\ "run_journalctl" \in Range(calls) =>
          Cardinality({i \in DOMAIN calls : calls[i] = "gnu_date_parse"}) = Cardinality(Given)
    /\ (returncode # <<>> /\ returncode # <<0>>) =>
          /\ pc = "done" /\ exit # <<>> /\ exit # <<0>>
          /\ \A i \in DOMAIN calls : Rank(calls[i]) <= 2
          /\ df = <<>> /\ filtered = <<>>
          /\ \A i \in DOMAIN printed : printed[i].kind = "journalctl error"
    /\ pc \in {"normalize_until", "fetch"} => exit = <<>> /\ raised = None
    /\ pc = "fetch" => ENABLED RunJournalctl
    /\ "run_journalctl" \in Range(calls) =>
          /\ since = None => "--since" \notin Range(cmd)
          /\ until = None => "--until" \notin Range(cmd)

\* date rejected --since, journalctl ran all the same and failed
C6_Witness ==
    /\ pc = "done" /\ returncode = <<1>> /\ exit = <<1>>
    /\ Truthy(args.since) /\ since = None
    /\ calls = <<"gnu_date_parse", "run_journalctl">>

\* C7: with no terms search_logs returns the whole frame, every row once
\* and in the original order, whatever delta is.
C7_NoTermsReturnsAll ==
    (SearchEnded /\ args.term = <<>>) =>
        /\ SearchReturned
        /\ Len(filtered) = Len(df)
        /\ \A k \in DOMAIN filtered : filtered[k] = k - 1

C7_Witness ==
    SearchReturned /\ args.term = <<>> /\ args.delta # 0 /\ Len(filtered) = 3

\* C8: for a fixed delta >= 0, the rows returned for a term list are among
\* the rows returned for the list with any one term removed.
C8_RemovingATermNeverShrinks ==
    (SearchReturned /\ args.term # <<>> /\ args.delta >= 0) =>
        \A k \in DOMAIN args.term :
            LET r == search_logs(df, RemoveAt(args.term, k), args.delta)
            IN  r.raised = None /\ Range(filtered) \subseteq Range(r.rows)

\* removing one of two terms makes the result strictly larger
C8_Witness ==
    /\ SearchReturned /\ Len(args.term) = 2 /\ args.delta = 1
    /\ \E k \in DOMAIN args.term :
          Range(filtered) # Range(search_logs(df, RemoveAt(args.term, k), args.delta).rows)
    /\ filtered # <<>>

\* the journal lines of the text, with the parts each was put together from
PartsOf(line) == {e \in JournalParts : Compose(e) = line}
HasColon(s) == ":" \in Range(s)
\* s holds a colon, and no blank follows the first one
FirstColonNoBlank(s) ==
    \E i \in DOMAIN s :
        /\ s[i] = ":" /\ \A j \in 1..(i - 1) : s[j] # ":"
        /\ (i = Len(s) \/ s[i + 1] # " ")
WellFormedHead(e) ==
    /\ e.ts \in ShapedTs /\ ~HasColon(e.unit)
    /\ e.pid \in {<<>>, <<"[","1","2","]">>} /\ e.sep = <<":"," ">>

C10_MatchesAreReturned ==
    (SearchReturned /\ args.term # <<>>) => Matches \subseteq Range(filtered)

====
